---- MODULE Spec2Model ----
(***************************************************************************)
(* HPACK integer representation (RFC 7541, 5.1) as implemented by          *)
(* src/header/hpack/integers.rs: decode_integer and encode_integer.        *)
(*                                                                         *)
(* A u32 is kept as two 16-bit limbs [hi, lo] (value = hi * 65536 + lo),   *)
(* because the values of interest (2^32 - 1, 127 * 2^28, 2^35) do not fit  *)
(* the model checker's integers.  The limb operations are exact; the       *)
(* 32-bit width is applied where the code applies it (Fits32 / Wrap32).    *)
(* Arithmetic overflow is build dependent in Rust: a build with overflow   *)
(* checks ("debug") panics, a build without ("release") wraps.             *)
(***************************************************************************)
EXTENDS Integers, Sequences, FiniteSets, TLC

VARIABLES build, prefix_size, phase, n, tail, sink, enc, bts, res

vars == <<build, prefix_size, phase, n, tail, sink, enc, bts, res>>

(***************************************************************************)
(* Bounds of the model                                                     *)
(***************************************************************************)
MaxOctets == 7
MaxTail == 1
MaxSmall == 400

(***************************************************************************)
(* u32 / u8 arithmetic                                                     *)
(***************************************************************************)
U(h, l) == [hi |-> h, lo |-> l]

Norm(h, l) == U(h + (l \div 65536), l % 65536)

FromInt(x) == Norm(0, x)

Add(a, b) == Norm(a.hi + b.hi, a.lo + b.lo)

Mul(c, a) == Norm(c * a.hi, c * a.lo)

Less(a, b) == a.hi < b.hi \/ (a.hi = b.hi /\ a.lo < b.lo)

Sub(a, b) ==
    IF a.lo >= b.lo THEN U(a.hi - b.hi, a.lo - b.lo)
    ELSE U(a.hi - b.hi - 1, a.lo + 65536 - b.lo)

Shr7(a) == U(a.hi \div 128, (a.hi % 128) * 512 + (a.lo \div 128))

Pow2(m) == IF m < 16 THEN U(0, 2^m) ELSE U(2^(m - 16), 0)

Fits32(a) == a.hi < 65536

Wrap32(a) == U(a.hi % 65536, a.lo)

AsU8(a) == a.lo % 256

RECURSIVE BitAnd(_, _)
BitAnd(a, b) ==
    IF a = 0 \/ b = 0 THEN 0
    ELSE (a % 2) * (b % 2) + 2 * BitAnd(a \div 2, b \div 2)

BitOr(a, b) == a + b - BitAnd(a, b)

(***************************************************************************)
(* decode_integer                                                          *)
(***************************************************************************)
ErrInvalidPrefix == "hpack integer: invalid prefix"
ErrNotEnoughOctets0 == "hpack integer: not enough octets (0)"
ErrNotEnoughOctets == "hpack integer: not enough octets"
ErrTooManyOctets == "hpack integer: to many octets"

octet_limit == 5

Ok(value, pos, ovf) ==
    [kind |-> "Ok", value |-> value, err |-> "", pos |-> pos, overflow |-> ovf]

Err(msg, pos, ovf) ==
    [kind |-> "Err", value |-> U(0, 0), err |-> msg, pos |-> pos, overflow |-> ovf]

Panic(pos) ==
    [kind |-> "Panic", value |-> U(0, 0), err |-> "", pos |-> pos, overflow |-> TRUE]

NoResult ==
    [kind |-> "None", value |-> U(0, 0), err |-> "", pos |-> 0, overflow |-> FALSE]

InvalidPrefix_noLower(size) == size > 8

InvalidPrefix(size) == size < 1 \/ size > 8

Mask(size) == IF size = 8 THEN 255 ELSE ((2^size) % 256) - 1

FitsInPrefix_inclusive(value, mask) == value <= mask

FitsInPrefix(value, mask) == value < mask

NextShift_byte(m) == m + 8

NextShift(m) == m + 7

\* 1 << m on a u32: a shift by 32 or more is an overflow; the wrapping build
\* shifts by m mod 32.
Shl1(m) == Pow2(m % 32)

RECURSIVE DecodeLoop(_, _, _, _, _, _, _)
DecodeLoop(src, pos, i, m, value, ovf, bld) ==
    IF pos >= Len(src) THEN Err(ErrNotEnoughOctets, pos, ovf)
    ELSE
        LET b == src[pos + 1]
            product == Mul(BitAnd(b, 127), Shl1(m))
            sum == Add(value, Wrap32(product))
            fault == m >= 32 \/ ~Fits32(product) \/ ~Fits32(sum)
        IN  IF fault /\ bld = "debug" THEN Panic(pos + 1)
            ELSE IF BitAnd(b, 128) # 128 THEN Ok(Wrap32(sum), pos + 1, ovf \/ fault)
            ELSE IF i = octet_limit THEN Err(ErrTooManyOctets, pos + 1, ovf \/ fault)
            ELSE DecodeLoop(src, pos + 1, i + 1, NextShift(m), Wrap32(sum),
                            ovf \/ fault, bld)

decode_integer(src, size, bld) ==
    IF InvalidPrefix(size) THEN Err(ErrInvalidPrefix, 0, FALSE)
    ELSE
        LET mask == Mask(size) IN
        IF Len(src) = 0 THEN Err(ErrNotEnoughOctets0, 0, FALSE)
        ELSE
            LET value == BitAnd(src[1], mask) IN
            IF FitsInPrefix(value, mask) THEN Ok(U(0, value), 1, FALSE)
            ELSE DecodeLoop(src, 1, 0, 0, U(0, value), FALSE, bld)

(***************************************************************************)
(* encode_integer                                                          *)
(***************************************************************************)
BufLen == 10

Check(size) == Sub(Pow2(size % 32), U(0, 1))

LastOctet_inclusive(r) == ~Less(U(0, 128), r)

LastOctet(r) == Less(r, U(0, 128))

ContOctet_noFlag(r) == BitAnd(AsU8(r), 127)

ContOctet(r) == BitOr(128, BitAnd(AsU8(r), 127))

RECURSIVE EncodeLoop(_)
EncodeLoop(r) ==
    IF LastOctet(r) THEN <<AsU8(r)>>
    ELSE
        LET r2 == Shr7(r) IN
        <<ContOctet(r)>> \o (IF r2 = U(0, 0) THEN <<>> ELSE EncodeLoop(r2))

encode_integer(v, buf, size, bld) ==
    IF size >= 32 /\ bld = "debug"
    THEN [kind |-> "Panic", sink |-> buf, written |-> 0]
    ELSE
        LET check == Check(size)
            out == IF Less(v, check) THEN <<BitOr(0, AsU8(v))>>
                   ELSE <<BitOr(0, AsU8(check))>> \o EncodeLoop(Sub(v, check))
        IN  IF Len(out) > Len(buf)
            THEN [kind |-> "Panic", sink |-> SubSeq(out, 1, Len(buf)),
                  written |-> Len(buf)]
            ELSE [kind |-> "Done",
                  sink |-> out \o SubSeq(buf, Len(out) + 1, Len(buf)),
                  written |-> Len(out)]

(***************************************************************************)
(* Inputs                                                                  *)
(***************************************************************************)
Builds == {"debug", "release"}

ValidSizes == 1..8

PrefixSizes == ValidSizes \cup {0, 9, 255}

Fills == {0, 255}

\* 0x0F, 0x7F, 0x8F, 0xFF: small and large 7-bit chunks, with and without
\* the continuation flag; sentinel prefixes for N <= 4, N <= 7 and every N.
RawOctets == {15, 127, 143, 255}

RECURSIVE SeqsUpTo(_, _)
SeqsUpTo(S, k) ==
    IF k = 0 THEN {<<>>}
    ELSE LET T == SeqsUpTo(S, k - 1) IN
         T \cup {Append(t, x) : t \in {u \in T : Len(u) = k - 1}, x \in S}

Examples == {<<65>>, <<255, 5>>, <<31, 154, 10>>, <<3, 1>>, <<128>>, <<224, 10>>}

RawInputs == SeqsUpTo(RawOctets, MaxOctets) \cup Examples

TailOctets == {5, 255}

Tails == SeqsUpTo(TailOctets, MaxTail)

Values ==
    {FromInt(x) : x \in 0..MaxSmall}
    \cup {FromInt(1337)}
    \cup {FromInt(16384 + d) : d \in (0 - 2)..257}
    \cup {FromInt(2097152 + d) : d \in (0 - 2)..257}
    \cup {FromInt(268435456 + d) : d \in (0 - 2)..257}
    \cup {U(32768, 0), U(65535, 0), U(65535, 65280), U(65535, 65534), U(65535, 65535)}

(***************************************************************************)
(* The caller: one encode into a buffer of BufLen octets (zeroed or full   *)
(* of old data) followed by a decode of what was written (whole, with      *)
(* trailing octets, or cut short), or a decode of arbitrary octets.        *)
(***************************************************************************)
Init ==
    /\ build \in Builds
    /\ prefix_size \in PrefixSizes
    /\ phase = "idle"
    /\ n = U(0, 0)
    /\ tail = <<>>
    /\ sink = <<>>
    /\ enc = [kind |-> "None", written |-> 0]
    /\ bts = <<>>
    /\ res = NoResult

Encode ==
    /\ phase = "idle"
    /\ \E v \in Values, f \in Fills :
        LET r == encode_integer(v, [k \in 1..BufLen |-> f], prefix_size, build) IN
        /\ n' = v
        /\ sink' = r.sink
        /\ enc' = [kind |-> r.kind, written |-> r.written]
    /\ phase' = "encoded"
    /\ UNCHANGED <<build, prefix_size, tail, bts, res>>

DecodeEncoded ==
    /\ phase = "encoded"
    /\ enc.kind = "Done"
    /\ \E t \in Tails :
        /\ tail' = t
        /\ bts' = SubSeq(sink, 1, enc.written) \o t
        /\ res' = decode_integer(SubSeq(sink, 1, enc.written) \o t, prefix_size, build)
    /\ phase' = "decoded_full"
    /\ UNCHANGED <<build, prefix_size, n, sink, enc>>

DecodeTruncated ==
    /\ phase = "encoded"
    /\ enc.kind = "Done"
    /\ \E k \in 0..(enc.written - 1) :
        /\ bts' = SubSeq(sink, 1, k)
        /\ res' = decode_integer(SubSeq(sink, 1, k), prefix_size, build)
    /\ phase' = "decoded_cut"
    /\ UNCHANGED <<build, prefix_size, n, tail, sink, enc>>

DecodeRaw ==
    /\ phase = "idle"
    /\ \E raw \in RawInputs :
        /\ bts' = raw
        /\ res' = decode_integer(raw, prefix_size, build)
    /\ phase' = "decoded_raw"
    /\ UNCHANGED <<build, prefix_size, n, tail, sink, enc>>

Next == Encode \/ DecodeEncoded \/ DecodeTruncated \/ DecodeRaw

Spec == Init /\ [][Next]_vars

(***************************************************************************)
(* Reference definitions used by the properties (RFC 7541, 5.1)            *)
(***************************************************************************)
Decoded == phase \in {"decoded_full", "decoded_cut", "decoded_raw"}

ValidN == prefix_size \in ValidSizes

RefMask == (2^prefix_size) - 1

HighBit(b) == b >= 128

\* Value of a list of continuation octets, least significant chunk first.
RECURSIVE RefValue(_)
RefValue(cs) ==
    IF cs = <<>> THEN U(0, 0)
    ELSE Add(U(0, cs[1] % 128), Mul(128, RefValue(Tail(cs))))

Written == SubSeq(sink, 1, enc.written)

\* bts is a sentinel prefix followed by k+1 continuation octets of which
\* only the last has its high bit clear (further octets may follow).
Terminated(k) ==
    /\ Len(bts) >= k + 2
    /\ \A j \in 2..(k + 1) : HighBit(bts[j])
    /\ ~HighBit(bts[k + 2])

\* bts is empty, or a sentinel prefix followed by at most octet_limit
\* continuation octets that all have their high bit set.
Unterminated ==
    \/ bts = <<>>
    \/ /\ bts[1] % (RefMask + 1) = RefMask
       /\ Len(bts) - 1 <= octet_limit
       /\ \A j \in 2..Len(bts) : HighBit(bts[j])

IsInsufficientInput(r) ==
    r.kind = "Err" /\ r.err \in {ErrNotEnoughOctets0, ErrNotEnoughOctets}

(***************************************************************************)
(* Properties                                                              *)
(***************************************************************************)

\* C1: for every prefix width N in 1..8 and every value v below 2^28,
\* decoding what encode_integer(v, N) wrote, with the same N, returns Ok(v).
RoundTrip ==
    (phase = "decoded_full" /\ ValidN /\ Less(n, FromInt(268435456)))
        => (res.kind = "Ok" /\ res.value = n)

RoundTripWitness ==
    /\ phase = "decoded_full"
    /\ prefix_size = 5
    /\ n = FromInt(268435455)
    /\ enc.written = 5
    /\ res.kind = "Ok"
    /\ res.value = n

\* C2 (as claimed): for every N in 1..8 and every octet sequence, no step of
\* the accumulation in decode_integer (shift, product, running sum) exceeds
\* 2^32 - 1.
NoOverflow == (Decoded /\ ValidN) => ~res.overflow

\* C3 (as claimed): decode_integer never returns a success value after
\* having consumed more than 5 continuation octets.
FiveContinuationLimit ==
    (Decoded /\ ValidN /\ res.kind = "Ok") => res.pos - 1 <= 5

\* C4: for every N in 1..8 and every value v, encode_integer writes the
\* single octet v when v < mask; otherwise the octet mask followed by the
\* base-128 digits of v - mask, least significant first, the high bit set on
\* every digit but the last, with no redundant zero most-significant digit.
\* The rest of the buffer is left as it was.
EncoderOutput ==
    (enc.kind = "Done" /\ ValidN) =>
        /\ IF Less(n, FromInt(RefMask)) THEN Written = <<n.lo>>
           ELSE /\ Len(Written) >= 2
                /\ Written[1] = RefMask
                /\ \A j \in 2..(Len(Written) - 1) : HighBit(Written[j])
                /\ ~HighBit(Written[Len(Written)])
                /\ Len(Written) > 2 => Written[Len(Written)] # 0
                /\ Add(FromInt(RefMask), RefValue(Tail(Written))) = n
        /\ \E f \in Fills : \A j \in (enc.written + 1)..BufLen : sink[j] = f
        /\ n = FromInt(RefMask - 1) => Len(Written) = 1
        /\ n = FromInt(RefMask) => Written = <<RefMask, 0>>
        /\ (n = FromInt(1337) /\ prefix_size = 5) => Written = <<31, 154, 10>>
        /\ (n = FromInt(4) /\ prefix_size = 2) => Written = <<3, 1>>

EncoderOutputWitness ==
    /\ phase = "encoded"
    /\ enc.kind = "Done"
    /\ prefix_size = 5
    /\ n = FromInt(1337)
    /\ Written = <<31, 154, 10>>
    /\ sink[4] = 255

\* C5: for every N in 1..8 and every input with first octet p, decode_integer
\* returns p mod 2^N when that is below mask; otherwise, when p is followed
\* by continuation octets c_0..c_k (k <= 4) of which only c_k has its high
\* bit clear and the sum fits in 32 bits, it returns
\* mask + sum of (c_i mod 128) * 128^i.
DecoderResult ==
    (Decoded /\ ValidN /\ bts # <<>>) =>
        LET v0 == bts[1] % (RefMask + 1) IN
        /\ v0 < RefMask => (res.kind = "Ok" /\ res.value = U(0, v0))
        /\ v0 = RefMask =>
            \A k \in 0..4 :
                LET total == Add(FromInt(RefMask), RefValue(SubSeq(bts, 2, k + 2))) IN
                (Terminated(k) /\ Fits32(total))
                    => (res.kind = "Ok" /\ res.value = total)
        /\ (bts = <<65>> /\ prefix_size = 8) => res.value = FromInt(65)
        /\ (bts = <<255, 5>> /\ prefix_size = 8) => res.value = FromInt(260)
        /\ (bts = <<31, 154, 10>> /\ prefix_size = 5) => res.value = FromInt(1337)

DecoderResultWitness ==
    /\ phase = "decoded_raw"
    /\ build = "debug"
    /\ prefix_size = 8
    /\ bts = <<255, 143, 143, 143, 143, 15>>
    /\ res.kind = "Ok"
    /\ res.value = Add(FromInt(255), RefValue(Tail(bts)))

\* C6 (as claimed): for every N in 1..8, decode_integer applied to any
\* sequence of 7 octets that all have their high bit set fails with the
\* "to many octets" error, never with a value, another error or a fault.
SevenOctetsTooMany ==
    (phase = "decoded_raw" /\ ValidN /\ Len(bts) = 7
        /\ \A j \in 1..7 : HighBit(bts[j]))
        => (res.kind = "Err" /\ res.err = ErrTooManyOctets)

\* C7 (as claimed): for every N in 1..8, decode_integer returns the
\* not-enough-octets error when the source is empty, and whenever the source
\* runs out after a sentinel prefix before an octet with a clear high bit
\* was read and before the octet limit is reached; in particular on every
\* proper prefix of what encode_integer wrote.
TruncatedInsufficient ==
    /\ (Decoded /\ ValidN /\ Unterminated) => IsInsufficientInput(res)
    /\ (phase = "decoded_cut" /\ ValidN) => IsInsufficientInput(res)

\* C8: for every N in 1..8, every value v and every trailing sequence t,
\* decode_integer on encode(v, N) followed by t returns v with the cursor
\* advanced by exactly len(encode(v, N)), so the next octet is the first of
\* t; a prefix-only value advances the cursor by exactly one octet.
ConsumesExactly ==
    (phase = "decoded_full" /\ ValidN) =>
        /\ res.kind = "Ok"
        /\ res.value = n
        /\ res.pos = enc.written
        /\ tail # <<>> => bts[res.pos + 1] = tail[1]
        /\ Less(n, FromInt(RefMask)) => res.pos = 1

ConsumesExactlyWitness ==
    /\ phase = "decoded_full"
    /\ build = "debug"
    /\ prefix_size = 8
    /\ n = U(65535, 65535)
    /\ tail = <<255>>
    /\ res.kind = "Ok"
    /\ res.pos = 6
    /\ Len(bts) = 7

\* C9: for every prefix width N outside 1..8 and every source,
\* decode_integer fails with the invalid-prefix error and reads no octet.
InvalidWidthRejected ==
    (Decoded /\ ~ValidN) =>
        (res.kind = "Err" /\ res.err = ErrInvalidPrefix /\ res.pos = 0)

InvalidWidthRejectedWitness ==
    /\ phase = "decoded_raw"
    /\ prefix_size = 0
    /\ Len(bts) = 7
    /\ res.err = ErrInvalidPrefix
    /\ res.pos = 0

\* C10 (as claimed): for every N outside 1..8 and every value v,
\* encode_integer(v, N) is rejected before any octet of the output buffer
\* is taken from the sink or written.
EncoderRejectsInvalid ==
    (enc.kind # "None" /\ ~ValidN) => (enc.kind = "Panic" /\ enc.written = 0)

====
